---- MODULE Spec2Model ----
(***************************************************************************)
(* xcp: the invocation of src/main.rs (argument validation, driver call,   *)
(* control loop over the status channel) together with the driver, the     *)
(* operation planner and the path-expansion service it calls.              *)
(***************************************************************************)
EXTENDS Integers, Sequences, FiniteSets, TLC

VARIABLES
    opts,             \* Opts: paths, no_clobber, recursive, driver_kind, parallelism, block_size
    fs,               \* the filesystem: object path -> [kind, data]
    fs0,              \* the filesystem when the invocation started
    pc,               \* position of main
    dest,             \* main: dest
    source_patterns,  \* main: source_patterns
    sources,          \* main: sources (expanded)
    idx,              \* main: position of the sanity-check loop over sources
    result,           \* what main returned ("running" until it returns)
    pb,               \* the progress bar: pos, total, ended
    chan,             \* messages in flight on the status channel (stat_tx -> stat_rx)
    handles,          \* who holds a producing end of the status channel
    invoked,          \* the driver entry point main invoked ("none" before)
    dstate,           \* driver state machine: Idle, Planning, Executing, Completed, Failed
    dret,             \* what the driver entry point returned ("pending" until it returns)
    plan,             \* the planned operations not yet dispatched
    exec,             \* executor -> the operation it is executing and its progress
    sent,             \* history: every StatusUpdate sent, in channel order
    received          \* history: every StatusUpdate main received, in order

vars == <<opts, fs, fs0, pc, dest, source_patterns, sources, idx, result, pb, chan,
          handles, invoked, dstate, dret, plan, exec, sent, received>>

mainVars == <<dest, source_patterns, sources, idx>>
driverVars == <<invoked, dstate, dret, plan, exec>>

-----------------------------------------------------------------------------
(* Bounds *)

MaxSources == 2      \* source arguments per invocation
MaxWorkers == 2      \* worker threads of the parallel driver

-----------------------------------------------------------------------------
(* Paths: a path is a sequence of components. *)

A == <<"a">>
B == <<"b">>
O == <<"o">>
DotO == <<".", "o">>     \* another spelling of o: same object, different PathBuf
Star == <<"*">>          \* a glob pattern

None == <<>>

\* The filesystem object a path resolves to.
Obj(p) == IF Len(p) > 1 /\ p[1] = "." THEN Tail(p) ELSE p

Join(p, name) == Append(p, name)
Basename(p) == p[Len(p)]

\* Path::exists, Path::is_dir, Path::is_file on a filesystem f
ExistsIn(f, p) == Obj(p) \in DOMAIN f
IsDirIn(f, p) == ExistsIn(f, p) /\ f[Obj(p)].kind = "dir"
IsFileIn(f, p) == ExistsIn(f, p) /\ f[Obj(p)].kind = "file"

exists(p) == ExistsIn(fs, p)
is_dir(p) == IsDirIn(fs, p)
is_file(p) == IsFileIn(fs, p)

\* PathBuf equality is by components, not by the object the path names
PathEq(p, q) == p = q

\* a node of the filesystem; fault is the I/O failure the environment has in
\* store for a file: "open" (it cannot be opened for reading) or "read" (the
\* read of its last block fails)
FaultyFile(data, fault) == [kind |-> "file", data |-> data, fault |-> fault]
File(data) == FaultyFile(data, "none")
Dir == [kind |-> "dir", data |-> <<>>, fault |-> "none"]
Other == [kind |-> "other", data |-> <<>>, fault |-> "none"]
\* a symbolic link; data is the target string of the link
Symlink(link) == [kind |-> "symlink", data |-> link, fault |-> "none"]

-----------------------------------------------------------------------------
(* Errors and results *)

Err(kind, msg) == [kind |-> kind, msg |-> msg]
Running == [kind |-> "running", msg |-> ""]
Ok == [kind |-> "Ok", msg |-> ""]
Pending == [kind |-> "pending", msg |-> ""]

IsErr(r) == r.kind \notin {"running", "Ok", "pending"}

ValidationKinds == {"InvalidArguments", "InvalidSource", "InvalidDestination",
                    "DestinationExists"}

-----------------------------------------------------------------------------
(* Inputs: the command line and the filesystem the invocation starts on. *)

RECURSIVE SeqsUpTo(_, _)
SeqsUpTo(S, n) ==
    IF n = 0 THEN {<<>>}
    ELSE LET shorter == SeqsUpTo(S, n - 1)
         IN  shorter \cup {Append(s, x) : s \in {t \in shorter : Len(t) = n - 1}, x \in S}

SourceArgs == {A, B, O, DotO, Star}

\* opts.paths: SOURCE... DEST; DEST is always spelled o
ArgLists == {<<>>} \cup {Append(s, O) : s \in SeqsUpTo(SourceArgs, MaxSources)}

EmptyFs == [p \in {} |-> Dir]

\* a directory with a file and an empty subdirectory in it
DirTree(root) ==
    (root :> Dir) @@ (Join(root, "f") :> File(<<6>>)) @@ (Join(root, "s") :> Dir)

\* what the source a can be: absent, a regular file, a file whose last block
\* cannot be read, a directory
TreesA == {EmptyFs, A :> File(<<1, 2>>), A :> FaultyFile(<<1, 2>>, "read"), DirTree(A)}

\* what the source b can be: a regular file, a file that cannot be opened,
\* a directory
TreesB == {B :> File(<<3>>), B :> FaultyFile(<<3>>, "open"), DirTree(B)}

\* what the destination can be: absent, a regular file, a device, an empty
\* directory, a directory that already holds a file named a
DestTrees ==
    { EmptyFs,
      O :> File(<<4>>),
      O :> Other,
      O :> Dir,
      (O :> Dir) @@ (Join(O, "a") :> File(<<5>>)) }

Filesystems == {ta @@ tb @@ to : ta \in TreesA, tb \in TreesB, to \in DestTrees}

DriverConfigs ==
    {[driver_kind |-> "Sequential", parallelism |-> 1],
     [driver_kind |-> "Parallel", parallelism |-> MaxWorkers]}

\* who can hold a producing end of the channel, and who executes operations
MainHandle == <<"main", 0>>
Caller == <<"driver", 0>>
Worker(n) == <<"worker", n>>
Executors == {Caller} \cup {Worker(n) : n \in 1..MaxWorkers}
Idle == [st |-> "idle", op |-> None, off |-> 0]

InitWith(argLists, filesystems, configs, blockSizes) ==
    /\ opts \in {[paths |-> a, no_clobber |-> nc, recursive |-> r,
                  driver_kind |-> c.driver_kind, parallelism |-> c.parallelism,
                  block_size |-> bs] :
                 a \in argLists, nc \in BOOLEAN, r \in BOOLEAN, c \in configs,
                 bs \in blockSizes}
    /\ fs \in filesystems
    /\ fs0 = fs
    /\ pc = "split_last"
    /\ dest = None
    /\ source_patterns = <<>>
    /\ sources = <<>>
    /\ idx = 0
    /\ result = Running
    /\ pb = [pos |-> 0, total |-> 0, ended |-> FALSE]
    /\ chan = <<>>
    /\ handles = {}
    /\ invoked = "none"
    /\ dstate = "Idle"
    /\ dret = Pending
    /\ plan = <<>>
    /\ exec = [e \in Executors |-> Idle]
    /\ sent = <<>>
    /\ received = <<>>

Init == InitWith(ArgLists, Filesystems, DriverConfigs, {1})

-----------------------------------------------------------------------------
(* Path expansion (options::expand_sources): a literal pattern is passed   *)
(* through as it is, a glob pattern becomes the existing paths it matches. *)

GlobOrder == <<A, B, O>>

ExistingOf(f, paths) == SelectSeq(paths, LAMBDA p : ExistsIn(f, p))

RECURSIVE ExpandIn(_, _)
ExpandIn(f, patterns) ==
    IF patterns = <<>> THEN <<>>
    ELSE (IF Head(patterns) = Star THEN ExistingOf(f, GlobOrder) ELSE <<Head(patterns)>>)
         \o ExpandIn(f, Tail(patterns))

expand_sources(patterns) == ExpandIn(fs, patterns)

\* libfs::is_same_file: compares the objects' identity; the outcomes it can
\* have when the source cannot be stat'ed are an error or "not the same"
is_same_file(s, d) ==
    IF exists(s) /\ exists(d)
    THEN {IF Obj(s) = Obj(d) THEN "same" ELSE "different"}
    ELSE {"error", "different"}

-----------------------------------------------------------------------------
(* main *)

\* return Err(e) from main
Fail(e) ==
    /\ result' = e
    /\ pc' = "exit"

\* main.rs 59-63: split opts.paths into dest and source_patterns
SplitLast ==
    /\ pc = "split_last"
    /\ IF Len(opts.paths) = 0
       THEN /\ Fail(Err("InvalidArguments", "Insufficient arguments"))
            /\ UNCHANGED <<dest, source_patterns>>
       ELSE /\ dest' = opts.paths[Len(opts.paths)]
            /\ source_patterns' = SubSeq(opts.paths, 1, Len(opts.paths) - 1)
            /\ pc' = "check_multi"
            /\ UNCHANGED result
    /\ UNCHANGED <<opts, fs, fs0, sources, idx, pb, chan, handles, sent, received>>
    /\ UNCHANGED driverVars

\* main.rs 67: the test made on the patterns, before expansion
MultipleToNonDir == Len(source_patterns) > 1 /\ ~is_dir(dest)

\* main.rs 65-72
CheckMulti ==
    /\ pc = "check_multi"
    /\ IF MultipleToNonDir
       THEN Fail(Err("InvalidDestination",
                     "Multiple sources and destination is not a directory."))
       ELSE pc' = "expand" /\ UNCHANGED result
    /\ UNCHANGED <<opts, fs, fs0, pb, chan, handles, sent, received>>
    /\ UNCHANGED mainVars
    /\ UNCHANGED driverVars

\* main.rs 74-78
Expand ==
    /\ pc = "expand"
    /\ sources' = expand_sources(source_patterns)
    /\ IF sources' = <<>>
       THEN Fail(Err("InvalidSource", "No source files found."))
       ELSE pc' = "setup" /\ UNCHANGED result
    /\ UNCHANGED <<opts, fs, fs0, dest, source_patterns, idx, pb, chan, handles,
                   sent, received>>
    /\ UNCHANGED driverVars

\* main.rs 80-84: the progress bar, the channel, the StatSender main holds
Setup ==
    /\ pc = "setup"
    /\ pb' = [pos |-> 0, total |-> 0, ended |-> FALSE]
    /\ chan' = <<>>
    /\ handles' = {MainHandle}
    /\ pc' = "branch"
    /\ UNCHANGED <<opts, fs, fs0, result, sent, received>>
    /\ UNCHANGED mainVars
    /\ UNCHANGED driverVars

\* SingleFileCase without the test that the destination is a file
SingleFileCaseAnyDest == Len(sources) = 1

\* main.rs 86: the condition that selects the single-file branch
SingleFileCase == Len(sources) = 1 /\ is_file(dest)

\* Invoke with stats cloned into the call instead of moved: main keeps its
\* producing end
InvokeKeepsHandle(entry) ==
    /\ invoked' = entry
    /\ handles' = handles \cup {Caller}
    /\ dstate' = "Planning"
    /\ pc' = "in_driver"
    /\ UNCHANGED <<result, dret, plan, exec>>

\* main.rs 109, 138: call a driver entry point; stats is moved into the call
Invoke(entry) ==
    /\ invoked' = entry
    /\ handles' = (handles \ {MainHandle}) \cup {Caller}
    /\ dstate' = "Planning"
    /\ pc' = "in_driver"
    /\ UNCHANGED <<result, dret, plan, exec>>

\* SingleFile without the no-clobber test
SingleFileNoClobberTest ==
    /\ pc = "branch"
    /\ SingleFileCase
    /\ \E same \in is_same_file(sources[1], dest) :
         CASE same = "error" ->
                /\ Fail(Err("Io", "is_same_file"))
                /\ UNCHANGED <<handles>>
                /\ UNCHANGED driverVars
           [] same = "same" ->
                /\ Fail(Err("DestinationExists",
                            "Source and destination is the same file."))
                /\ UNCHANGED <<handles>>
                /\ UNCHANGED driverVars
           [] same = "different" -> Invoke("copy_single")
    /\ UNCHANGED <<opts, fs, fs0, pb, chan, sent, received>>
    /\ UNCHANGED mainVars

\* SingleFile that reports the same-file collision as an InvalidSource
SingleFileSelfInvalidSource ==
    /\ pc = "branch"
    /\ SingleFileCase
    /\ IF opts.no_clobber
       THEN /\ Fail(Err("DestinationExists",
                        "Destination file exists and --no-clobber is set."))
            /\ UNCHANGED <<handles>>
            /\ UNCHANGED driverVars
       ELSE \E same \in is_same_file(sources[1], dest) :
              CASE same = "error" ->
                     /\ Fail(Err("Io", "is_same_file"))
                     /\ UNCHANGED <<handles>>
                     /\ UNCHANGED driverVars
                [] same = "same" ->
                     /\ Fail(Err("InvalidSource",
                                 "Source and destination is the same file."))
                     /\ UNCHANGED <<handles>>
                     /\ UNCHANGED driverVars
                [] same = "different" -> Invoke("copy_single")
    /\ UNCHANGED <<opts, fs, fs0, pb, chan, sent, received>>
    /\ UNCHANGED mainVars

\* main.rs 86-109: one source and the destination is an existing file
SingleFile ==
    /\ pc = "branch"
    /\ SingleFileCase
    /\ IF opts.no_clobber
       THEN /\ Fail(Err("DestinationExists",
                        "Destination file exists and --no-clobber is set."))
            /\ UNCHANGED <<handles>>
            /\ UNCHANGED driverVars
       ELSE \E same \in is_same_file(sources[1], dest) :
              CASE same = "error" ->
                     /\ Fail(Err("Io", "is_same_file"))
                     /\ UNCHANGED <<handles>>
                     /\ UNCHANGED driverVars
                [] same = "same" ->
                     /\ Fail(Err("DestinationExists",
                                 "Source and destination is the same file."))
                     /\ UNCHANGED <<handles>>
                     /\ UNCHANGED driverVars
                [] same = "different" -> Invoke("copy_single")
    /\ UNCHANGED <<opts, fs, fs0, pb, chan, sent, received>>
    /\ UNCHANGED mainVars

\* main.rs 111: every other case enters the sanity-check loop
EnterLoop ==
    /\ pc = "branch"
    /\ ~SingleFileCase
    /\ idx' = 1
    /\ pc' = "validate"
    /\ UNCHANGED <<opts, fs, fs0, dest, source_patterns, sources, result, pb, chan,
                   handles, sent, received>>
    /\ UNCHANGED driverVars

\* CheckSource without the test that the source is not the destination path
CheckSourceNoSelfTest(source) ==
    IF ~exists(source)
    THEN Err("InvalidSource", "Source does not exist.")
    ELSE IF is_dir(source) /\ ~opts.recursive
    THEN Err("InvalidSource", "Source is directory and --recursive not specified.")
    ELSE IF exists(dest) /\ ~is_dir(dest)
    THEN Err("InvalidDestination",
             "Source is directory but target exists and is not a directory")
    ELSE Ok

\* CheckSource without the test that the source exists
CheckSourceNoExistsTest(source) ==
    IF is_dir(source) /\ ~opts.recursive
    THEN Err("InvalidSource", "Source is directory and --recursive not specified.")
    ELSE IF PathEq(source, dest)
    THEN Err("InvalidSource", "Cannot copy a directory into itself")
    ELSE IF exists(dest) /\ ~is_dir(dest)
    THEN Err("InvalidDestination",
             "Source is directory but target exists and is not a directory")
    ELSE Ok

\* main.rs 115-135: the checks made on one source, in the code's order;
\* the error it is rejected with, or Ok
CheckSource(source) ==
    IF ~exists(source)
    THEN Err("InvalidSource", "Source does not exist.")
    ELSE IF is_dir(source) /\ ~opts.recursive
    THEN Err("InvalidSource", "Source is directory and --recursive not specified.")
    ELSE IF PathEq(source, dest)
    THEN Err("InvalidSource", "Cannot copy a directory into itself")
    ELSE IF exists(dest) /\ ~is_dir(dest)
    THEN Err("InvalidDestination",
             "Source is directory but target exists and is not a directory")
    ELSE Ok

\* main.rs 113-136: one iteration of the sanity-check loop
ValidateSource ==
    /\ pc = "validate"
    /\ idx <= Len(sources)
    /\ LET e == CheckSource(sources[idx])
       IN  IF IsErr(e)
           THEN Fail(e) /\ UNCHANGED idx
           ELSE idx' = idx + 1 /\ UNCHANGED <<pc, result>>
    /\ UNCHANGED <<opts, fs, fs0, dest, source_patterns, sources, pb, chan, handles,
                   sent, received>>
    /\ UNCHANGED driverVars

\* CallCopyAll that calls copy_single
CallCopySingle ==
    /\ pc = "validate"
    /\ idx > Len(sources)
    /\ Invoke("copy_single")
    /\ UNCHANGED <<opts, fs, fs0, pb, chan, sent, received>>
    /\ UNCHANGED mainVars

\* main.rs 138: the loop is over, call copy_all with all the sources
CallCopyAll ==
    /\ pc = "validate"
    /\ idx > Len(sources)
    /\ Invoke("copy_all")
    /\ UNCHANGED <<opts, fs, fs0, pb, chan, sent, received>>
    /\ UNCHANGED mainVars

-----------------------------------------------------------------------------
(* The status channel *)

\* from, file and op tell who sent the notification and for which operation
\* of the plan
Copied(e, op, n) ==
    [type |-> "Copied", v |-> n, err |-> Ok, from |-> e, file |-> op.target, op |-> op.id]
Size(e, op, n) ==
    [type |-> "Size", v |-> n, err |-> Ok, from |-> e, file |-> op.target, op |-> op.id]
Error(e, op, err) ==
    [type |-> "Error", v |-> 0, err |-> err, from |-> e, file |-> op.target, op |-> op.id]

\* a channel made with room for one pending message only
HasRoomForOne(c) == c = <<>>

\* main.rs 81: the channel is made by cbc::unbounded(); it has room for
\* another message whatever is pending
HasRoom(c) == TRUE

\* StatSender::send: completes when the channel has room, which the
\* unbounded channel always has; id is the message's place in the history
\* of the channel
Send(m) ==
    LET msg == [type |-> m.type, v |-> m.v, err |-> m.err, from |-> m.from,
                file |-> m.file, op |-> m.op, id |-> Len(sent) + 1]
    IN  /\ HasRoom(chan)
        /\ chan' = Append(chan, msg)
        /\ sent' = Append(sent, msg)

ErrorSent == \E i \in 1..Len(sent) : sent[i].type = "Error"

-----------------------------------------------------------------------------
(* Operation planner *)

DirOp(source, target) == [kind |-> "Directory", source |-> source, target |-> target, size |-> 0]
FileOp(source, target, n) == [kind |-> "File", source |-> source, target |-> target, size |-> n]
SymlinkOp(source, target) == [kind |-> "Symlink", source |-> source, target |-> target, size |-> 0]

\* directory entries are visited in this order
NameOrder == <<"a", "b", "f", "l", "o", "s">>

ChildNames(f, p) == SelectSeq(NameOrder, LAMBDA n : Join(p, n) \in DOMAIN f)

\* PlanTree that visits a directory after the entries it holds
RECURSIVE PlanTreeChildrenFirst(_, _, _)
RECURSIVE PlanChildrenFirst(_, _, _, _)
PlanTreeChildrenFirst(f, p, t) ==
    IF f[p].kind = "dir"
    THEN PlanChildrenFirst(f, p, t, ChildNames(f, p)) \o <<DirOp(p, t)>>
    ELSE IF f[p].kind = "symlink"
    THEN <<SymlinkOp(p, t)>>
    ELSE <<FileOp(p, t, Len(f[p].data))>>

PlanChildrenFirst(f, p, t, names) ==
    IF names = <<>> THEN <<>>
    ELSE PlanTreeChildrenFirst(f, Join(p, Head(names)), Join(t, Head(names)))
         \o PlanChildrenFirst(f, p, t, Tail(names))

\* depth-first, parent before child; a symbolic link is planned as a link
RECURSIVE PlanTree(_, _, _)
RECURSIVE PlanChildren(_, _, _, _)
PlanTree(f, p, t) ==
    IF f[p].kind = "dir"
    THEN <<DirOp(p, t)>> \o PlanChildren(f, p, t, ChildNames(f, p))
    ELSE IF f[p].kind = "symlink"
    THEN <<SymlinkOp(p, t)>>
    ELSE <<FileOp(p, t, Len(f[p].data))>>

PlanChildren(f, p, t, names) ==
    IF names = <<>> THEN <<>>
    ELSE PlanTree(f, Join(p, Head(names)), Join(t, Head(names)))
         \o PlanChildren(f, p, t, Tail(names))

\* the planner's validation of one source root
PlanCheck(source, dst) ==
    IF ~exists(source) THEN Err("InvalidSource", "Source does not exist.")
    ELSE IF is_dir(source) /\ ~opts.recursive
    THEN Err("InvalidSource", "Source is directory and --recursive not specified.")
    ELSE IF exists(dst) /\ Obj(source) = Obj(dst)
    THEN Err("InvalidSource", "Source and destination are the same object.")
    ELSE Ok

\* where a source is copied to: the destination path itself (copy_single, or
\* copy_all to a destination that is not a directory), or the entry named
\* after the source inside the destination directory
TargetIn(f, entry, source, dst) ==
    IF entry = "copy_all" /\ IsDirIn(f, dst)
    THEN Join(Obj(dst), Basename(source))
    ELSE Obj(dst)

\* the operations planned for the sources, in the filesystem f
RECURSIVE PlanAllIn(_, _, _, _)
PlanAllIn(f, entry, srcs, dst) ==
    IF srcs = <<>> THEN <<>>
    ELSE PlanTree(f, Obj(Head(srcs)), TargetIn(f, entry, Head(srcs), dst))
         \o PlanAllIn(f, entry, Tail(srcs), dst)

PlanAll(entry, srcs, dst) == PlanAllIn(fs, entry, srcs, dst)

\* the operations of a plan, numbered in plan order
Numbered(ops) ==
    [i \in 1..Len(ops) |->
       [kind |-> ops[i].kind, source |-> ops[i].source, target |-> ops[i].target,
        size |-> ops[i].size, id |-> i]]

\* the first source the planner rejects, 0 if none
FirstRejected(srcs, dst) ==
    LET bad == {i \in 1..Len(srcs) : IsErr(PlanCheck(srcs[i], dst))}
    IN  IF bad = {} THEN 0 ELSE CHOOSE i \in bad : \A j \in bad : i <= j

-----------------------------------------------------------------------------
(* Driver *)

Workers == {Worker(n) : n \in 1..opts.parallelism}


Min(a, b) == IF a < b THEN a ELSE b

\* write bytes at an offset of a file's content
WriteAt(data, off, bytes) ==
    LET n == Len(bytes)
        len == IF Len(data) > off + n THEN Len(data) ELSE off + n
    IN  [i \in 1..len |-> IF i > off /\ i <= off + n THEN bytes[i - off]
                          ELSE IF i <= Len(data) THEN data[i] ELSE 0]

\* Return without the "?": the driver's error is dropped
ReturnDropsError(r) ==
    /\ dret' = r
    /\ pc' = "recv"
    /\ UNCHANGED result

\* main.rs 109, 138: the driver entry point returns r to main; "?" returns
\* an error from main at once, otherwise main goes on to the control loop
Return(r) ==
    /\ dret' = r
    /\ IF IsErr(r) THEN Fail(r) ELSE pc' = "recv" /\ UNCHANGED result

\* the driver stops on the caller's context: Failed, the producing end
\* released, the error returned
DriverFails(e) ==
    /\ dstate' = "Failed"
    /\ handles' = handles \ {Caller}
    /\ Return(e)

DriverGoesOn == UNCHANGED <<dstate, handles, dret, pc, result>>

\* Planning: plan every source, or reject the invocation before any mutation
DriverPlan ==
    /\ pc = "in_driver"
    /\ dstate = "Planning"
    /\ LET bad == FirstRejected(sources, dest)
       IN  IF bad # 0
           THEN /\ DriverFails(PlanCheck(sources[bad], dest))
                /\ UNCHANGED plan
           ELSE /\ plan' = Numbered(PlanAll(invoked, sources, dest))
                /\ dstate' = "Executing"
                /\ UNCHANGED <<handles, dret, pc, result>>
    /\ UNCHANGED <<opts, fs, fs0, pb, chan, sent, received, invoked, exec>>
    /\ UNCHANGED mainVars

\* the next operation the calling context executes itself: the sequential
\* driver executes every operation in plan order, the parallel driver only
\* the directory operations, all of them before it dispatches any worker
OwnOps ==
    IF opts.driver_kind = "Sequential" THEN plan
    ELSE SelectSeq(plan, LAMBDA op : op.kind = "Directory")

Remove(seq, x) ==
    LET i == CHOOSE j \in 1..Len(seq) : seq[j] = x /\ \A k \in 1..(j - 1) : seq[k] # x
    IN  SubSeq(seq, 1, i - 1) \o SubSeq(seq, i + 1, Len(seq))

\* execute a Directory operation on the calling context
DriverMkdir ==
    /\ pc = "in_driver"
    /\ dstate = "Executing"
    /\ dret = Pending
    /\ exec[Caller].st = "idle"
    /\ OwnOps # <<>>
    /\ Head(OwnOps).kind = "Directory"
    /\ LET op == Head(OwnOps)
       IN  IF exists(op.target) /\ ~is_dir(op.target)
           THEN LET e == Err("InvalidDestination",
                            "Source is directory but target exists and is not a directory")
                IN  /\ Send(Error(Caller, op, e))
                    /\ DriverFails(e)
                    /\ UNCHANGED <<fs, plan>>
           ELSE /\ fs' = IF exists(op.target) THEN fs ELSE (op.target :> Dir) @@ fs
                /\ plan' = Remove(plan, op)
                /\ UNCHANGED <<chan, sent>>
                /\ DriverGoesOn
    /\ UNCHANGED <<opts, fs0, pb, received, invoked, exec>>
    /\ UNCHANGED mainVars

\* start a File operation on executor e: the outcome is an error, or the
\* target created empty and the Size notification sent. A Symlink operation
\* is executed in one step: the outcome is an error if something is at the
\* target, or the link recreated with the same target string.
BeginOutcomes(op) ==
    IF opts.no_clobber /\ exists(op.target)
    THEN {Err("DestinationExists", "Destination file exists and --no-clobber is set.")}
    ELSE IF op.kind = "Symlink" /\ exists(op.target)
    THEN {Err("Io", "target exists")}
    ELSE IF exists(op.target) /\ ~is_file(op.target)
    THEN {Err("Io", "target is not a regular file")}
    ELSE IF fs[op.source].fault = "open"
    THEN {Err("Io", "source cannot be opened")}
    ELSE {Ok}

BeginEffect(e, op, outcome) ==
    IF IsErr(outcome)
    THEN /\ Send(Error(e, op, outcome))
         /\ UNCHANGED fs
    ELSE IF op.kind = "Symlink"
    THEN /\ fs' = (op.target :> Symlink(fs[op.source].data)) @@ fs
         /\ UNCHANGED <<chan, sent>>
    ELSE /\ Send(Size(e, op, op.size))
         /\ fs' = [x \in DOMAIN fs \cup {op.target} |->
                     IF x = op.target
                     THEN FaultyFile(<<>>, IF exists(x) THEN fs[x].fault ELSE "none")
                     ELSE fs[x]]

Busy(op) == [st |-> "busy", op |-> op, off |-> 0]

\* copy the next block of the file executor e is copying
ChunkLen(x) == Min(opts.block_size, x.op.size - x.off)

ChunkOutcomes(e) ==
    LET x == exec[e]
    IN  IF fs[x.op.source].fault = "read" /\ x.off + ChunkLen(x) >= x.op.size
        THEN {Err("Io", "read failed")}
        ELSE {Ok}

ChunkEffect(e, outcome) ==
    LET x == exec[e]
        n == ChunkLen(x)
        bytes == SubSeq(fs[x.op.source].data, x.off + 1, x.off + n)
    IN  IF IsErr(outcome)
        THEN /\ Send(Error(e, x.op, outcome))
             /\ UNCHANGED fs
        ELSE /\ Send(Copied(e, x.op, n))
             /\ fs' = [fs EXCEPT ![x.op.target].data = WriteAt(@, x.off, bytes)]

AfterChunk(e, outcome) ==
    LET x == exec[e]
    IN  IF IsErr(outcome) \/ x.off + ChunkLen(x) >= x.op.size
        THEN Idle
        ELSE [x EXCEPT !.off = @ + ChunkLen(x)]

\* sequential driver: start the next File or Symlink operation on the
\* calling context
DriverBeginFile ==
    /\ pc = "in_driver"
    /\ dstate = "Executing"
    /\ dret = Pending
    /\ opts.driver_kind = "Sequential"
    /\ exec[Caller].st = "idle"
    /\ plan # <<>>
    /\ Head(plan).kind # "Directory"
    /\ LET op == Head(plan)
       IN  \E outcome \in BeginOutcomes(op) :
             /\ BeginEffect(Caller, op, outcome)
             /\ plan' = Tail(plan)
             /\ IF IsErr(outcome)
                THEN DriverFails(outcome) /\ UNCHANGED exec
                ELSE /\ exec' = [exec EXCEPT ![Caller] =
                                   IF op.size = 0 THEN Idle ELSE Busy(op)]
                     /\ DriverGoesOn
    /\ UNCHANGED <<opts, fs0, pb, received, invoked>>
    /\ UNCHANGED mainVars

\* sequential driver: copy the next block on the calling context
DriverChunk ==
    /\ pc = "in_driver"
    /\ dstate = "Executing"
    /\ dret = Pending
    /\ exec[Caller].st = "busy"
    /\ \E outcome \in ChunkOutcomes(Caller) :
         /\ ChunkEffect(Caller, outcome)
         /\ exec' = [exec EXCEPT ![Caller] = AfterChunk(Caller, outcome)]
         /\ IF IsErr(outcome)
            THEN DriverFails(outcome)
            ELSE DriverGoesOn
    /\ UNCHANGED <<opts, fs0, pb, received, invoked, plan>>
    /\ UNCHANGED mainVars

\* sequential driver: every operation succeeded; Completed, the producing
\* end released, Ok returned
DriverFinish ==
    /\ pc = "in_driver"
    /\ dstate = "Executing"
    /\ dret = Pending
    /\ opts.driver_kind = "Sequential"
    /\ exec[Caller].st = "idle"
    /\ plan = <<>>
    /\ dstate' = "Completed"
    /\ handles' = handles \ {Caller}
    /\ Return(Ok)
    /\ UNCHANGED <<opts, fs, fs0, pb, chan, sent, received, invoked, plan, exec>>
    /\ UNCHANGED mainVars

\* parallel driver: every directory exists; hand a producing end to each
\* worker of the pool, release the driver's own and return Ok
Dispatch ==
    /\ pc = "in_driver"
    /\ dstate = "Executing"
    /\ dret = Pending
    /\ opts.driver_kind = "Parallel"
    /\ OwnOps = <<>>
    /\ handles' = (handles \ {Caller}) \cup Workers
    /\ Return(Ok)
    /\ UNCHANGED <<opts, fs, fs0, pb, chan, sent, received, invoked, dstate, plan, exec>>
    /\ UNCHANGED mainVars

\* the process is alive and the workers have been dispatched
WorkersRun == pc # "exit" /\ opts.driver_kind = "Parallel" /\ dret = Ok

\* The workers of the pool are interchangeable: the idle worker that acts
\* next is taken to be the one with the least number.
IdleWorkers == {w \in Workers \cap handles : exec[w].st = "idle"}
NextIdle(w) == w \in IdleWorkers /\ \A v \in IdleWorkers : w[2] <= v[2]

\* a worker pulls the next File or Symlink operation from the shared work
\* source and starts it
WorkerBegin(w) ==
    /\ WorkersRun
    /\ NextIdle(w)
    /\ plan # <<>>
    /\ LET op == Head(plan)
       IN  \E outcome \in BeginOutcomes(op) :
             /\ BeginEffect(w, op, outcome)
             /\ plan' = Tail(plan)
             /\ exec' = [exec EXCEPT ![w] =
                           IF IsErr(outcome) \/ op.size = 0 THEN Idle ELSE Busy(op)]
    /\ UNCHANGED <<opts, fs0, pc, result, pb, received, handles, invoked, dstate, dret>>
    /\ UNCHANGED mainVars

\* a worker copies the next block of its file
WorkerChunk(w) ==
    /\ WorkersRun
    /\ w \in handles
    /\ exec[w].st = "busy"
    /\ \E outcome \in ChunkOutcomes(w) :
         /\ ChunkEffect(w, outcome)
         /\ exec' = [exec EXCEPT ![w] = AfterChunk(w, outcome)]
    /\ UNCHANGED <<opts, fs0, pc, result, pb, received, handles, invoked, dstate, dret, plan>>
    /\ UNCHANGED mainVars

\* a worker finds the work source empty: it releases its producing end; the
\* last one to do so ends the driver invocation, Completed or Failed
WorkerRelease(w) ==
    /\ WorkersRun
    /\ NextIdle(w)
    /\ plan = <<>>
    /\ handles' = handles \ {w}
    /\ exec' = [exec EXCEPT ![w].st = "done"]
    /\ dstate' = IF handles' # {} THEN dstate
                 ELSE IF ErrorSent THEN "Failed" ELSE "Completed"
    /\ UNCHANGED <<opts, fs, fs0, pc, result, pb, chan, sent, received, invoked, dret, plan>>
    /\ UNCHANGED mainVars

-----------------------------------------------------------------------------
(* main, after the driver call *)

\* Handle that logs an Error and goes on with the loop
HandleGoesOn(stat) ==
    CASE stat.type = "Copied" ->
           /\ pb' = [pb EXCEPT !.pos = @ + stat.v]
           /\ UNCHANGED <<pc, result>>
      [] stat.type = "Size" ->
           /\ pb' = [pb EXCEPT !.total = @ + stat.v]
           /\ UNCHANGED <<pc, result>>
      [] stat.type = "Error" ->
           /\ UNCHANGED <<pc, result, pb>>

\* Handle that adds Copied to the total and Size to the position
HandleSwapsCounters(stat) ==
    CASE stat.type = "Copied" ->
           /\ pb' = [pb EXCEPT !.total = @ + stat.v]
           /\ UNCHANGED <<pc, result>>
      [] stat.type = "Size" ->
           /\ pb' = [pb EXCEPT !.pos = @ + stat.v]
           /\ UNCHANGED <<pc, result>>
      [] stat.type = "Error" ->
           /\ Fail(stat.err)
           /\ UNCHANGED pb

\* main.rs 144-152: what the control loop does with one StatusUpdate
Handle(stat) ==
    CASE stat.type = "Copied" ->
           /\ pb' = [pb EXCEPT !.pos = @ + stat.v]
           /\ UNCHANGED <<pc, result>>
      [] stat.type = "Size" ->
           /\ pb' = [pb EXCEPT !.total = @ + stat.v]
           /\ UNCHANGED <<pc, result>>
      [] stat.type = "Error" ->
           /\ Fail(stat.err)
           /\ UNCHANGED pb

\* Recv that leaves the StatusUpdate at the head of the channel
RecvPeeks ==
    /\ pc = "recv"
    /\ chan # <<>>
    /\ Len(received) < Len(sent) + 1
    /\ UNCHANGED chan
    /\ received' = Append(received, Head(chan))
    /\ Handle(Head(chan))
    /\ UNCHANGED <<opts, fs, fs0, handles, sent>>
    /\ UNCHANGED mainVars
    /\ UNCHANGED driverVars

\* Recv that takes the StatusUpdate sent last instead of the oldest one
RecvTakesLast ==
    /\ pc = "recv"
    /\ chan # <<>>
    /\ chan' = SubSeq(chan, 1, Len(chan) - 1)
    /\ received' = Append(received, chan[Len(chan)])
    /\ Handle(chan[Len(chan)])
    /\ UNCHANGED <<opts, fs, fs0, handles, sent>>
    /\ UNCHANGED mainVars
    /\ UNCHANGED driverVars

\* main.rs 143-153: receive the next StatusUpdate
Recv ==
    /\ pc = "recv"
    /\ chan # <<>>
    /\ chan' = Tail(chan)
    /\ received' = Append(received, Head(chan))
    /\ Handle(Head(chan))
    /\ UNCHANGED <<opts, fs, fs0, handles, sent>>
    /\ UNCHANGED mainVars
    /\ UNCHANGED driverVars

\* the receive ends: nothing is pending and every producing end is released
Disconnected == chan = <<>> /\ handles = {}

\* RecvClosed that returns Ok without ending the bar
RecvClosedSkipsEnd ==
    /\ pc = "recv"
    /\ Disconnected
    /\ result' = Ok
    /\ pc' = "exit"
    /\ UNCHANGED <<opts, fs, fs0, pb, chan, handles, sent, received>>
    /\ UNCHANGED mainVars
    /\ UNCHANGED driverVars

\* main.rs 153-158: the loop ends, the bar is finished, main returns Ok
RecvClosed ==
    /\ pc = "recv"
    /\ Disconnected
    /\ pb' = [pb EXCEPT !.ended = TRUE]
    /\ result' = Ok
    /\ pc' = "exit"
    /\ UNCHANGED <<opts, fs, fs0, chan, handles, sent, received>>
    /\ UNCHANGED mainVars
    /\ UNCHANGED driverVars

-----------------------------------------------------------------------------

Next ==
    \/ SplitLast
    \/ CheckMulti
    \/ Expand
    \/ Setup
    \/ SingleFile
    \/ EnterLoop
    \/ ValidateSource
    \/ CallCopyAll
    \/ DriverPlan
    \/ DriverMkdir
    \/ DriverBeginFile
    \/ DriverChunk
    \/ DriverFinish
    \/ Dispatch
    \/ \E w \in Workers : WorkerBegin(w)
    \/ \E w \in Workers : WorkerChunk(w)
    \/ \E w \in Workers : WorkerRelease(w)
    \/ Recv
    \/ RecvClosed

Spec == Init /\ [][Next]_vars

\* The process does not stop while its main thread or a worker can take a
\* step: every thread that can run is eventually scheduled, and every
\* behaviour is finite, so weak fairness of the whole step is what the
\* scheduler provides.
\* The liveness properties are checked on the invocations of a file (whose
\* read can fail) and a directory, into a destination that is a regular file
\* or a directory.
FairFilesystems ==
    {ta @@ tb @@ to : ta \in {A :> File(<<1, 2>>), A :> FaultyFile(<<1, 2>>, "read")},
                      tb \in {DirTree(B)},
                      to \in {O :> File(<<4>>), O :> Dir}}

FairInit == InitWith(ArgLists, FairFilesystems, DriverConfigs, {1})

FairSpec == FairInit /\ [][Next]_vars /\ WF_vars(Next)

\* Invocations on a deeper tree: b holds a file, and a directory that holds a
\* symbolic link and a directory, which holds a file of two blocks and an
\* empty directory.
DeepTree(root) ==
    LET s == Join(root, "s")
        ss == Join(s, "s")
    IN  (root :> Dir) @@ (Join(root, "f") :> File(<<6>>))
        @@ (s :> Dir) @@ (Join(s, "l") :> Symlink(<<"f">>))
        @@ (ss :> Dir) @@ (Join(ss, "f") :> File(<<7, 8>>)) @@ (Join(ss, "s") :> Dir)

TreeFilesystems ==
    {ta @@ tb @@ to : ta \in {A :> File(<<1, 2>>)},
                      tb \in {DeepTree(B)},
                      to \in {EmptyFs, O :> File(<<4>>), O :> Dir}}

TreeArgLists == {<<A, O>>, <<B, O>>, <<A, B, O>>}

TreeInit == InitWith(TreeArgLists, TreeFilesystems, DriverConfigs, {1})

TreeSpec == TreeInit /\ [][Next]_vars

-----------------------------------------------------------------------------
(* Notions the properties are stated with *)

Exited == pc = "exit"
Failed == Exited /\ IsErr(result)

SourceIndices == 1..Len(sources)

\* source i and the destination were the same filesystem object when the
\* invocation started
SameObject(i) ==
    /\ ExistsIn(fs0, sources[i])
    /\ ExistsIn(fs0, dest)
    /\ Obj(sources[i]) = Obj(dest)

\* the path the copy of source i writes to: the destination itself, or the
\* entry named after the source inside the destination directory
WriteTarget(i) ==
    IF IsDirIn(fs0, dest) THEN Join(Obj(dest), Basename(sources[i])) ELSE Obj(dest)

\* the copy of source i would write over a file that existed at the start
ClobbersFile(i) == IsFileIn(fs0, WriteTarget(i))

RECURSIVE SumOf(_, _)
SumOf(msgs, type) ==
    IF msgs = <<>> THEN 0
    ELSE (IF Head(msgs).type = type THEN Head(msgs).v ELSE 0) + SumOf(Tail(msgs), type)

ErrorIndices(msgs) == {i \in 1..Len(msgs) : msgs[i].type = "Error"}
FirstError(msgs) == msgs[CHOOSE i \in ErrorIndices(msgs) : \A j \in ErrorIndices(msgs) : i <= j]

IsPrefix(a, b) == Len(a) <= Len(b) /\ a = SubSeq(b, 1, Len(a))

-----------------------------------------------------------------------------
(* C1 *)

\* C1: whenever more than one source is to be copied (several source
\* patterns, or one pattern expanded to several paths) and the destination
\* is not an existing directory, no driver entry point is invoked and the
\* invocation fails with InvalidDestination.
C1_MultipleToNonDirRejected ==
    ((Len(source_patterns) > 1 \/ Len(sources) > 1) /\ ~IsDirIn(fs0, dest))
        => /\ invoked = "none"
           /\ Exited => result.kind = "InvalidDestination"

-----------------------------------------------------------------------------
(* C2 *)

\* C2 as stated: whenever a source and the destination are the same object,
\* no driver entry point is invoked and the invocation fails.
C2_SameObjectNeverInvokes ==
    (\E i \in SourceIndices : SameObject(i))
        => /\ invoked = "none"
           /\ Exited => IsErr(result)

\* C2 as amended: whenever a source and the destination are the same object
\* the invocation fails, nothing is mutated and no status message is sent;
\* no driver entry point is invoked when the destination is not a directory
\* or when the source is spelled as the destination is; when a directory is
\* reached by two different spellings main's checks pass, copy_all is
\* invoked and its planner rejects the source before any mutation.
C2_SameObjectNoMutation ==
    (\E i \in SourceIndices : SameObject(i))
        => /\ fs = fs0
           /\ sent = <<>>
           /\ result # Ok
           /\ Exited => IsErr(result)
           /\ invoked # "none" =>
                /\ invoked = "copy_all"
                /\ IsDirIn(fs0, dest)
                /\ \A i \in SourceIndices : SameObject(i) => ~PathEq(sources[i], dest)
                /\ dstate \in {"Planning", "Failed"}

C2_Witness ==
    /\ Failed
    /\ invoked = "copy_all"
    /\ result.kind = "InvalidSource"
    /\ \E i \in SourceIndices : SameObject(i)

-----------------------------------------------------------------------------
(* C3 *)

\* C3: an invocation with a source path that does not exist fails with
\* InvalidSource, whatever the destination and the flags are.
C3_MissingSourceInvalidSource ==
    (Exited /\ \E i \in SourceIndices : ~ExistsIn(fs0, sources[i]))
        => result.kind = "InvalidSource"

-----------------------------------------------------------------------------
(* C4 *)

\* C4 as stated: with no_clobber set, whenever the path the copy would write
\* to already exists as a file, the invocation fails with DestinationExists
\* and the file's content is unmodified.
C4_NoClobberDestinationExists ==
    (opts.no_clobber /\ Exited /\ \E i \in SourceIndices : ClobbersFile(i))
        => /\ result.kind = "DestinationExists"
           /\ \A i \in SourceIndices :
                ClobbersFile(i) => fs[WriteTarget(i)] = fs0[WriteTarget(i)]

\* C4 as amended: with no_clobber set, whenever the path the copy of a source
\* would write to already exists as a file, the invocation fails and the file
\* is unmodified; the error is DestinationExists when there is one source and
\* either the destination itself is the existing file or the source is a
\* regular file; otherwise another error can be reported first.
C4_NoClobberFailsFileKept ==
    (opts.no_clobber /\ \E i \in SourceIndices : ClobbersFile(i))
        => /\ result # Ok
           /\ Exited => IsErr(result)
           /\ \A i \in SourceIndices :
                ClobbersFile(i) => fs[WriteTarget(i)] = fs0[WriteTarget(i)]
           /\ (Exited /\ Len(sources) = 1
                 /\ (IsFileIn(fs0, dest) \/ IsFileIn(fs0, sources[1])))
                => result.kind = "DestinationExists"

C4_Witness ==
    /\ Failed
    /\ opts.no_clobber
    /\ result.kind = "DestinationExists"
    /\ invoked = "none"
    /\ Len(sources) = 1
    /\ ClobbersFile(1)
    /\ fs[WriteTarget(1)] = fs0[WriteTarget(1)]

-----------------------------------------------------------------------------
(* C5 *)

\* C5: an invocation with a directory source and no recursive flag fails
\* with InvalidSource, whatever the destination is and whether or not
\* no_clobber is set.
C5_DirectoryNeedsRecursive ==
    (Exited /\ ~opts.recursive /\ \E i \in SourceIndices : IsDirIn(fs0, sources[i]))
        => result.kind = "InvalidSource"

-----------------------------------------------------------------------------
(* C6 *)

\* C6 as stated: every validation error is raised before any driver entry
\* point is invoked and before any status message is sent.
C6_ValidationBeforeDriver ==
    (Failed /\ result.kind \in ValidationKinds)
        => /\ invoked = "none"
           /\ sent = <<>>

\* what main's checks establish about source i before copy_all is called
PassedChecks(i) ==
    /\ ExistsIn(fs0, sources[i])
    /\ IsDirIn(fs0, sources[i]) => opts.recursive
    /\ ~PathEq(sources[i], dest)
    /\ ExistsIn(fs0, dest) => IsDirIn(fs0, dest)

\* C6 as amended: every error main itself raises is raised before any driver
\* entry point is invoked, before any status message is sent and before
\* anything is mutated, and ends the invocation at once; copy_all is invoked
\* only after every source has passed main's checks, and copy_single only
\* after the single-file checks; errors of the same kinds are also raised
\* inside the driver, after its entry point is invoked.
C6_MainValidatesBeforeDriver ==
    /\ IsErr(result) => Exited
    /\ (Exited /\ invoked = "none")
         => /\ IsErr(result)
            /\ sent = <<>>
            /\ fs = fs0
            /\ dstate = "Idle"
            /\ handles \subseteq {MainHandle}
    /\ invoked = "copy_all"
         => /\ idx > Len(sources)
            /\ \A i \in SourceIndices : PassedChecks(i)
            /\ ~(Len(sources) = 1 /\ IsFileIn(fs0, dest))
    /\ invoked = "copy_single"
         => /\ Len(sources) = 1
            /\ IsFileIn(fs0, dest)
            /\ ~opts.no_clobber
            /\ ~SameObject(1)

\* a later source is invalid: the earlier, valid one is not copied
C6_Witness ==
    /\ Failed
    /\ invoked = "none"
    /\ idx = 2
    /\ PassedChecks(1)
    /\ result.kind = "InvalidSource"
    /\ fs = fs0

-----------------------------------------------------------------------------
(* C7 *)

\* C7: the control loop stops at the first Error notification in channel
\* order: an Error is the last message received, the invocation has ended
\* with that error, it is the first Error sent, and the progress reporter has
\* been given exactly the messages received before it.
C7_StopsAtFirstError ==
    /\ IsPrefix(received, sent)
    /\ pb.pos = SumOf(received, "Copied")
    /\ pb.total = SumOf(received, "Size")
    /\ \A i \in 1..Len(received) :
         received[i].type = "Error"
           => /\ i = Len(received)
              /\ Exited
              /\ result = received[i].err
              /\ received[i] = FirstError(sent)
              /\ ~pb.ended

\* an Error has been received while other messages are queued behind it
C7_Witness ==
    /\ Exited
    /\ received # <<>>
    /\ received[Len(received)].type = "Error"
    /\ Len(received) > 1
    /\ chan # <<>>

-----------------------------------------------------------------------------
(* C8 *)

\* C8: main holds no producing end while it receives and the driver has
\* released its own once Completed or Failed; so whenever main is receiving,
\* eventually an Error has been sent or main has received every message
\* sent and ended with success.
C8_ReceiveTerminates ==
    /\ [](pc = "recv" => (MainHandle \notin handles /\ Caller \notin handles))
    /\ [](dstate \in {"Completed", "Failed"} => handles = {})
    /\ (pc = "recv") ~> (ErrorSent \/ (result = Ok /\ received = sent /\ chan = <<>>))

C8_Witness ==
    /\ Exited
    /\ result = Ok
    /\ dret = Ok
    /\ opts.driver_kind = "Parallel"
    /\ Len(sent) > 2
    /\ received = sent
    /\ handles = {}

-----------------------------------------------------------------------------
(* C9 *)

\* C9: the invocation ends with success if and only if main's checks passed,
\* the driver entry point returned Ok and no Error was sent; otherwise it
\* ends with the error the driver returned or, if it returned Ok, with the
\* first Error sent on the channel.
C9_SuccessIffNoError ==
    Exited
        => /\ result = Ok <=> (invoked # "none" /\ dret = Ok /\ ~ErrorSent)
           /\ IsErr(dret) => result = dret
           /\ (dret = Ok /\ ErrorSent) => result = FirstError(sent).err
           /\ (IsErr(dret) /\ ErrorSent) => dret = FirstError(sent).err
           /\ result = Ok => pb.ended

C9_Witness ==
    /\ Exited
    /\ result = Ok
    /\ invoked = "copy_all"
    /\ Len(sources) > 1
    /\ sent # <<>>

-----------------------------------------------------------------------------
(* C10 *)

\* C10 as stated: when the invocation has ended, every StatusUpdate sent has
\* been received exactly once.
C10_ConsumedExactlyOnce ==
    Exited
        => \A i \in 1..Len(sent) :
             Cardinality({j \in 1..Len(received) : received[j].id = i}) = 1

\* C10 as amended: every StatusUpdate is received at most once and in channel
\* order, the ones not yet received are the ones pending on the channel, and
\* when the invocation ends with success every one sent has been received
\* exactly once; when it ends with an error the messages behind the first
\* Error (all of them when the driver returned the error) stay unconsumed.
C10_ConsumedAtMostOnce ==
    /\ IsPrefix(received, sent)
    /\ chan = SubSeq(sent, Len(received) + 1, Len(sent))
    /\ \A i \in 1..Len(sent) : sent[i].id = i
    /\ \A i \in 1..Len(sent) :
         Cardinality({j \in 1..Len(received) : received[j].id = i}) <= 1
    /\ result = Ok => (received = sent /\ chan = <<>>)

C10_Witness ==
    /\ Exited
    /\ result = Ok
    /\ Len(received) > 3
    /\ received = sent

-----------------------------------------------------------------------------
(* C11 *)

\* the messages of the errors that the same-object tests report: main.rs
\* 101, main.rs 126, and the planner's own test
SelfCopyMsgs ==
    {"Source and destination is the same file.",
     "Cannot copy a directory into itself",
     "Source and destination are the same object."}

\* the only source is the destination itself and nothing else is wrong with
\* it: it exists, and recursion is enabled if it is a directory
SelfCopy ==
    /\ Len(sources) = 1
    /\ SameObject(1)
    /\ IsDirIn(fs0, dest) => opts.recursive

\* the invocation was rejected because a source is the destination
RejectedAsSelfCopy == Failed /\ (result.msg \in SelfCopyMsgs \/ SelfCopy)

\* C11 as stated: an invocation rejected because a source and the
\* destination are the same filesystem object reports InvalidSource, in the
\* single-file case too and whether or not no_clobber is set.
C11_SelfCopyInvalidSource ==
    RejectedAsSelfCopy => result.kind = "InvalidSource"

\* C11 as amended: an invocation rejected because a source and the
\* destination are the same filesystem object reports DestinationExists in
\* the single-file case (one source, the destination an existing regular
\* file), with or without no_clobber; InvalidDestination when the
\* destination is neither a regular file nor a directory and the source is
\* spelled differently; InvalidSource in every other case. copy_single is
\* never invoked on it.
C11_SelfCopyKind ==
    RejectedAsSelfCopy
        => /\ invoked # "copy_single"
           /\ result.kind =
                IF Len(sources) = 1 /\ IsFileIn(fs0, dest)
                THEN "DestinationExists"
                ELSE IF SelfCopy /\ ~IsDirIn(fs0, dest) /\ ~PathEq(sources[1], dest)
                THEN "InvalidDestination"
                ELSE "InvalidSource"

C11_Witness ==
    /\ RejectedAsSelfCopy
    /\ ~opts.no_clobber
    /\ sources = <<DotO>>
    /\ IsFileIn(fs0, dest)
    /\ result = Err("DestinationExists", "Source and destination is the same file.")

-----------------------------------------------------------------------------
(* C12 *)

\* the driver has accepted the sources and planned their operations
PlanAccepted ==
    /\ invoked # "none"
    /\ dstate # "Planning"
    /\ FirstRejected(sources, dest) = 0

\* the whole plan of the invocation, as it was made
ThePlan == Numbered(PlanAllIn(fs0, invoked, sources, dest))

FileOps == {k \in 1..Len(ThePlan) : ThePlan[k].kind = "File"}

\* the places in the channel's history of operation k's notifications
NotesOf(k, type) == {i \in 1..Len(sent) : sent[i].op = k /\ sent[i].type = type}

\* the notifications of operation k, in the order they were sent
OfOp(msgs, k) == SelectSeq(msgs, LAMBDA m : m.op = k)

\* operation k has been taken from the plan
Begun(k) == \A j \in 1..Len(plan) : plan[j].id # k

CopyingNow(k) == \E e \in Executors : exec[e].st = "busy" /\ exec[e].op.id = k

\* the copy of file operation k has succeeded
CopySucceeded(k) == Begun(k) /\ NotesOf(k, "Error") = {} /\ ~CopyingNow(k)

\* the operations that a notification has been sent for
NotedOps == {sent[i].op : i \in 1..Len(sent)}

\* C12: for every operation that a Size or a Copied has been sent for,
\* exactly one Size has been sent, before every Copied of the file; the
\* running sum of the file's Copied never exceeds that Size and equals it
\* once the copy has succeeded. When the invocation ends with success every
\* file operation of the plan has its one Size, with the size of the file.
\* So the position the control loop accumulates never exceeds its total,
\* and equals it when the invocation ends with success.
C12_SizeThenCopiedUpToSize ==
    /\ \A k \in NotedOps :
         LET sizes == NotesOf(k, "Size")
             notes == OfOp(sent, k)
         IN  (sizes # {} \/ NotesOf(k, "Copied") # {})
               => /\ Cardinality(sizes) = 1
                  /\ \A c \in NotesOf(k, "Copied") : \E i \in sizes : i < c
                  /\ SumOf(notes, "Copied") <= SumOf(notes, "Size")
                  /\ CopySucceeded(k) => SumOf(notes, "Copied") = SumOf(notes, "Size")
    /\ (Exited /\ result = Ok)
         => LET thePlan == ThePlan
            IN  \A k \in 1..Len(thePlan) :
                  thePlan[k].kind = "File"
                    => /\ Cardinality(NotesOf(k, "Size")) = 1
                       /\ \A n \in NotesOf(k, "Size") : sent[n].v = thePlan[k].size
                       /\ SumOf(OfOp(sent, k), "Copied") = thePlan[k].size
    /\ ~PlanAccepted => sent = <<>>
    /\ pb.pos <= pb.total
    /\ (Exited /\ result = Ok) => pb.pos = pb.total

\* two workers have each copied a file, one of them in two blocks, their
\* notifications interleaved on the channel, and the control loop has
\* received them all
C12_Witness ==
    /\ PlanAccepted
    /\ Exited
    /\ result = Ok
    /\ \E k \in FileOps :
         /\ CopySucceeded(k)
         /\ Cardinality(NotesOf(k, "Copied")) = 2
         /\ \E i, j \in NotesOf(k, "Copied") :
              \E m \in i..j : sent[m].op # k
    /\ pb.pos = pb.total
    /\ pb.pos > 2

-----------------------------------------------------------------------------
(* C13 *)

ProperPrefix(p, q) == Len(p) < Len(q) /\ p = SubSeq(q, 1, Len(p))

DirOps == {k \in 1..Len(ThePlan) : ThePlan[k].kind = "Directory"}
LeafOps == {k \in 1..Len(ThePlan) : ThePlan[k].kind # "Directory"}

\* the plan holds the operations of source 1, then those of source 2, and
\* so on: SegEnd(i) is the place of the last operation of source i
SegLen(i) ==
    Len(PlanTree(fs0, Obj(sources[i]), TargetIn(fs0, invoked, sources[i], dest)))

RECURSIVE SegEnd(_)
SegEnd(i) == IF i = 0 THEN 0 ELSE SegEnd(i - 1) + SegLen(i)

\* the source whose tree operation k belongs to
RootOf(k) == CHOOSE i \in SourceIndices : SegEnd(i - 1) < k /\ k <= SegEnd(i)

\* the Directory operations of the ancestors of operation k: the ones of
\* the same source whose directory holds k's target
AncestorOps(k) ==
    {d \in DirOps :
       /\ RootOf(d) = RootOf(k)
       /\ ProperPrefix(ThePlan[d].target, ThePlan[k].target)}

\* the Directory operation d is completed: taken from the plan, and the
\* directory is there
DirDone(d) == Begun(d) /\ is_dir(ThePlan[d].target)

\* C13: for every planned File or Symlink operation, the Directory operation
\* of each of its ancestors is completed in the state in which the File or
\* Symlink operation begins, with either driver and under every
\* interleaving of the workers; and it stays completed.
C13_AncestorsBeforeNested ==
    /\ [][PlanAccepted
            => \A k \in LeafOps :
                 (~Begun(k) /\ Begun(k)') => \A d \in AncestorOps(k) : DirDone(d)]_vars
    /\ [](PlanAccepted
            => \A k \in LeafOps :
                 Begun(k) => \A d \in AncestorOps(k) : DirDone(d))

\* the parallel driver has copied the file two directories below the source
\* root and recreated the link one directory below it
C13_Witness ==
    /\ PlanAccepted
    /\ opts.driver_kind = "Parallel"
    /\ \E k \in LeafOps :
         /\ ThePlan[k].kind = "File"
         /\ CopySucceeded(k)
         /\ Cardinality(AncestorOps(k)) = 3
    /\ \E k \in LeafOps :
         /\ ThePlan[k].kind = "Symlink"
         /\ Begun(k)
         /\ Cardinality(AncestorOps(k)) = 2
         /\ ExistsIn(fs, ThePlan[k].target)

-----------------------------------------------------------------------------
(* C14 *)

\* C14: the notifications of one file are all sent by the executor the file
\* was assigned to, and the control loop receives them in the order they
\* were sent, none skipped, whatever other executors send in between.
C14_PerFileOrder ==
    /\ \A i \in 1..Len(received) : sent[received[i].id] = received[i]
    /\ \A i, j \in 1..Len(sent) : sent[i].op = sent[j].op => sent[i].from = sent[j].from
    /\ \A i, j \in 1..Len(received) :
         (i < j /\ received[i].op = received[j].op) => received[i].id < received[j].id
    /\ \A i \in 1..Len(received) :
         \A n \in 1..received[i].id :
           sent[n].op = received[i].op => \E j \in 1..i : received[j].id = n

\* the control loop has received the notifications of two files copied by
\* two workers, interleaved: between two notifications of the file planned
\* first it received one of the file planned after it, and it received a
\* Copied of that later file before the last Copied of the first
C14_Witness ==
    /\ pc = "recv"
    /\ \E i, j, k \in 1..Len(received) :
         /\ i < j /\ j < k
         /\ received[i].op = received[k].op
         /\ received[j].op > received[i].op
         /\ received[j].from # received[i].from
         /\ received[j].type = "Copied"
         /\ received[k].type = "Copied"

-----------------------------------------------------------------------------
(* C15 *)

\* the paths of the subtree of source i, as the invocation found it
SubtreeOf(i) == {p \in DOMAIN fs0 : IsPrefix(Obj(sources[i]), p)}

\* the same relative path under the destination directory, below the entry
\* named after the source
UnderDest(i, p) ==
    Join(Obj(dest), Basename(sources[i]))
        \o SubSeq(p, Len(Obj(sources[i])) + 1, Len(p))

\* C15: when an invocation ends with success, for every directory source
\* copied into a destination that was a directory, every directory of the
\* source subtree (empty and nested ones too) is a directory at the same
\* relative path under the destination, every file a file and every
\* symbolic link a symbolic link.
C15_TreeReproduced ==
    (Exited /\ result = Ok)
        => \A i \in SourceIndices :
             (IsDirIn(fs0, sources[i]) /\ IsDirIn(fs0, dest))
                => \A p \in SubtreeOf(i) :
                     /\ UnderDest(i, p) \in DOMAIN fs
                     /\ fs[UnderDest(i, p)].kind = fs0[p].kind

\* the parallel driver has copied the nested tree b into the directory o,
\* next to the file a
C15_Witness ==
    /\ Exited
    /\ result = Ok
    /\ opts.driver_kind = "Parallel"
    /\ sources = <<A, B>>
    /\ IsDirIn(fs0, dest)
    /\ ~ExistsIn(fs0, <<"o", "b">>)
    /\ IsDirIn(fs, <<"o", "b", "s", "s", "s">>)
    /\ IsFileIn(fs, <<"o", "b", "s", "s", "f">>)
    /\ IsFileIn(fs, <<"o", "a">>)

-----------------------------------------------------------------------------
(* C16 *)

-----------------------------------------------------------------------------
(* C17 *)

\* C17: the control loop receives nothing before the driver entry point has
\* returned: while main is in the call every notification sent is pending
\* on the channel; the sends complete all the same, so the call always
\* returns, and once a driver entry point is invoked the invocation always
\* comes to its end: the driver and the control loop never wait on each
\* other.
C17_NoReceiveBeforeReturn ==
    /\ [](dret = Pending => (received = <<>> /\ chan = sent))
    /\ [][received' # received => (pc = "recv" /\ dret = Ok)]_vars
    /\ (pc = "in_driver") ~> (dret # Pending)
    /\ (invoked # "none") ~> Exited

\* the sequential driver has returned with four notifications sent and none
\* received yet
C17_Witness ==
    /\ pc = "recv"
    /\ dret = Ok
    /\ opts.driver_kind = "Sequential"
    /\ received = <<>>
    /\ Len(chan) > 3
    /\ chan = sent

-----------------------------------------------------------------------------
(* C18 *)

\* the single-file case, on the filesystem the invocation started on
SingleFileAtStart == Len(sources) = 1 /\ IsFileIn(fs0, dest)

\* the same-file check of the single-file branch rejected the invocation:
\* the source is the destination, or the check itself failed
SameFileCheckRejected ==
    \/ SameObject(1)
    \/ invoked = "none" /\ result = Err("Io", "is_same_file")

\* C18: a driver entry point, once invoked, is the only one invoked and is
\* not invoked again. copy_single is invoked if and only if there is exactly
\* one expanded source, the destination is an existing regular file, and
\* neither the no-clobber check nor the same-file check rejects; copy_all is
\* invoked if and only if the invocation is not in the single-file case and
\* every source passes main's checks.
C18_OneEntryPoint ==
    /\ [][invoked # "none" => invoked' = invoked]_vars
    /\ [](invoked \in {"none", "copy_single", "copy_all"})
    /\ [](invoked = "copy_single"
            => (SingleFileAtStart /\ ~opts.no_clobber /\ ~SameFileCheckRejected))
    /\ [](invoked = "copy_all"
            => (~SingleFileAtStart /\ sources # <<>>
                  /\ \A i \in SourceIndices : PassedChecks(i)))
    /\ []((Exited /\ SingleFileAtStart /\ ~opts.no_clobber /\ ~SameFileCheckRejected)
            => invoked = "copy_single")
    /\ []((Exited /\ ~SingleFileAtStart /\ sources # <<>>
              /\ \A i \in SourceIndices : PassedChecks(i))
            => invoked = "copy_all")

\* a single file copied to a destination that did not exist, by copy_all
C18_Witness ==
    /\ Exited
    /\ result = Ok
    /\ invoked = "copy_all"
    /\ Len(sources) = 1
    /\ IsFileIn(fs0, sources[1])
    /\ ~ExistsIn(fs0, dest)
    /\ IsFileIn(fs, dest)

-----------------------------------------------------------------------------
(* C19 *)

\* the StatusUpdate a step of the control loop receives
JustReceived == received'[Len(received')]

\* C19: the progress reporter changes only when the control loop receives a
\* StatusUpdate, the oldest pending one, or ends. A Copied(v) adds v to its
\* position and nothing else, a Size(v) adds v to its total and nothing
\* else, an Error changes nothing. The bar is ended in one step only, when
\* every StatusUpdate sent has been received, and never changes after; so
\* when the invocation ends with success the position is the sum of all
\* Copied sent, the total the sum of all Size sent and the bar is ended, and
\* when it ends with an error the bar is not ended.
C19_ProgressReporter ==
    /\ [][received' # received
            => /\ received' = Append(received, Head(chan))
               /\ ~pb.ended
               /\ JustReceived.type = "Copied"
                    => pb' = [pb EXCEPT !.pos = @ + JustReceived.v]
               /\ JustReceived.type = "Size"
                    => pb' = [pb EXCEPT !.total = @ + JustReceived.v]
               /\ JustReceived.type = "Error" => pb' = pb]_vars
    /\ [][(pb' # pb /\ received' = received)
            => /\ pb' = [pb EXCEPT !.ended = TRUE]
               /\ received = sent
               /\ chan = <<>>
               /\ result' = Ok
               /\ pc' = "exit"]_vars
    /\ [][pb.ended => (pb' = pb /\ received' = received)]_vars
    /\ []((Exited /\ result = Ok)
            => /\ pb.ended
               /\ pb.pos = SumOf(sent, "Copied")
               /\ pb.total = SumOf(sent, "Size"))
    /\ [](Failed => ~pb.ended)

\* two files copied with success: three Copied and two Size received, the
\* bar ended
C19_Witness ==
    /\ Exited
    /\ result = Ok
    /\ pb.ended
    /\ Cardinality({i \in 1..Len(sent) : sent[i].type = "Copied"}) = 3
    /\ Cardinality({i \in 1..Len(sent) : sent[i].type = "Size"}) = 2
    /\ pb.pos = SumOf(sent, "Copied")
    /\ pb.total = SumOf(sent, "Size")

====
